---- MODULE Spec2Model ----
(***************************************************************************)
(* LSCP (Locally Selective Combination of Parallel Outlier Ensembles),     *)
(* pyod/models/lscp.py, as a state machine.                                *)
(*                                                                         *)
(* float64 values are fixed-point integers with FixedPoint units per 1.0;  *)
(* the entries of the vector of correlation scores are records [nan, v],   *)
(* and the mean of an empty selection is the value NaN.  Python indices    *)
(* are 0-based and kept 0-based as values; TLA+ sequences are 1-based, so  *)
(* element i of an array a is a[i + 1].  A matrix is a sequence of rows.   *)
(***************************************************************************)
EXTENDS Integers, Sequences, FiniteSets, TLC

VARIABLES
    self,           \* the LSCP object (self.exists = FALSE before __init__)
    ret,            \* the last call: its arguments, exception, result, locals
    history,        \* decision_function calls on this object: <<X, exc, scores>>
    scipy_raises    \* build: pearsonr raises on fewer than 2 points (else NaN)

vars == <<self, ret, history, scipy_raises>>

(***************************************************************************)
(* Bounds of the model, and the resolution of its numbers.                 *)
(***************************************************************************)
MaxCalls == 2            \* decision_function calls on one object
MaxSeed == 1             \* seeds 0..MaxSeed
MaxBins == 2             \* n_bins in 1..MaxBins
MaxRegionSize == 2       \* local_region_size in 1..MaxRegionSize
MaxScore == 2            \* correlation scores handed to the selector alone
FixedPoint == 10         \* units per 1.0 of a float64

(***************************************************************************)
(* Arithmetic helpers.                                                     *)
(***************************************************************************)
RECURSIVE SumSeq(_)
SumSeq(s) == IF s = <<>> THEN 0 ELSE Head(s) + SumSeq(Tail(s))

MinSeq(s) == CHOOSE v \in {s[i] : i \in DOMAIN s} : \A i \in DOMAIN s : v <= s[i]
MaxSeq(s) == CHOOSE v \in {s[i] : i \in DOMAIN s} : \A i \in DOMAIN s : v >= s[i]

\* floor(sqrt(v)) by bisection on lo..hi
RECURSIVE SqrtBetween(_, _, _)
SqrtBetween(v, lo, hi) ==
    IF lo >= hi THEN lo
    ELSE LET mid == (lo + hi + 1) \div 2
         IN  IF mid * mid <= v THEN SqrtBetween(v, mid, hi)
                               ELSE SqrtBetween(v, lo, mid - 1)

ISqrt(v) == SqrtBetween(v, 0, IF v < 40000 THEN v ELSE 40000)

\* An array built element by element, held as a tuple of its values.
Array(f) == f \o <<>>

Column(M, k) == Array([i \in DOMAIN M |-> M[i][k]])
NRows(M) == Len(M)
NCols(M) == IF M = <<>> THEN 0 ELSE Len(M[1])

\* a[idx] for a list idx of 0-based indices
Take(a, idx) == Array([p \in DOMAIN idx |-> a[idx[p] + 1]])

(***************************************************************************)
(* Collaborators of lscp.py that live outside it.                          *)
(***************************************************************************)

\* The random source: a RandomState is its position in a fixed stream of
\* period RngPeriod; a draw advances it and yields the high bits.
RngPeriod == 64
RngNext(s) == (13 * s + 7) % RngPeriod
RngOut(s) == s \div 8

\* sklearn check_random_state: an int seeds a new RandomState, a RandomState
\* is passed through.
check_random_state(rs) ==
    IF rs.kind = "RandomState" THEN rs
    ELSE [kind |-> "RandomState", state |-> (rs.state + 1) % RngPeriod]

RemoveAt(s, p) == Array([i \in 1..(Len(s) - 1) |-> IF i < p THEN s[i] ELSE s[i + 1]])

DrawJoin(f, rest) == [features |-> {f} \cup rest.features, state |-> rest.state]

\* count distinct elements of pool, one draw each.
RECURSIVE DrawFeatures(_, _, _)
RECURSIVE DrawMore(_, _, _)
DrawFeatures(state, pool, count) ==
    IF count = 0 \/ pool = <<>> THEN [features |-> {}, state |-> state]
    ELSE DrawMore(RngNext(state), pool, count)

DrawMore(s, pool, count) ==
    DrawJoin(pool[(RngOut(s) % Len(pool)) + 1],
             DrawFeatures(s, RemoveAt(pool, (RngOut(s) % Len(pool)) + 1), count - 1))

DrawSized(s, n_features, min_features, max_features) ==
    DrawFeatures(s, Array([i \in 1..n_features |-> i - 1]),
                 min_features + (RngOut(s) % (max_features - min_features + 1)))

Drawn(d) ==
    [exc |-> "", features |-> d.features,
     random_state |-> [kind |-> "RandomState", state |-> d.state]]

\* Random Subspace Sampler: a set of distinct feature indices whose size lies
\* between min_features and max_features; the random source advances.
generate_bagging_indices(random_state, n_features, min_features, max_features) ==
    IF max_features < min_features
    THEN [exc |-> "ValueError", features |-> {}, random_state |-> random_state]
    ELSE Drawn(DrawSized(RngNext(random_state.state), n_features,
                         min_features, max_features))

\* Squared Euclidean distance of two rows restricted to a feature subspace.
SqDist(a, b, features) ==
    SumSeq(Array([f \in DOMAIN a |->
               IF (f - 1) \in features THEN (a[f] - b[f]) * (a[f] - b[f]) ELSE 0]))

Rank(dist, i) ==
    Cardinality({j \in DOMAIN dist : dist[j] < dist[i] \/ (dist[j] = dist[i] /\ j < i)})

NearestByDist(dist, k) ==
    Array([p \in 1..k |-> (CHOOSE i \in DOMAIN dist : Rank(dist, i) = p - 1) - 1])

\* Spatial Index: the k nearest training indices of row q in the subspace,
\* nearest first, ties in index order.
KDTree_query(X_train, q, features, k) ==
    NearestByDist(Array([i \in DOMAIN X_train |-> SqDist(X_train[i], q, features)]), k)

\* Base detectors are black boxes: a kind fixes the score of a point.
DetectorKinds == {"sum", "first", "sqnorm"}

Detector_decision_function(kind, x) ==
    CASE kind = "sum" -> SumSeq(x)
      [] kind = "first" -> 2 * x[1]
      [] kind = "sqnorm" -> SumSeq(Array([f \in DOMAIN x |-> x[f] * x[f]]))
      [] OTHER -> 0

\* The score matrix of the detectors of a list on the rows of X.
DetectorScores(estimator_list, X) ==
    Array([j \in DOMAIN X |-> Array([k \in DOMAIN estimator_list |->
              Detector_decision_function(estimator_list[k], X[j])])])

\* pyod check_detector: the object must have fit and decision_function.
check_detector(estimator) == estimator \in DetectorKinds

Products(x, y) == Array([i \in DOMAIN x |-> x[i] * y[i]])

\* n times the (co)variance sum: n * sum(x y) - sum(x) sum(y)
Cov(x, y) == Len(x) * SumSeq(Products(x, y)) - SumSeq(x) * SumSeq(y)

ColumnStat(n, S, V) ==
    [n |-> n, S |-> S, V |-> V,
     R |-> IF V = 0 THEN 0 ELSE ISqrt(V * FixedPoint * FixedPoint)]

ColumnStats(train) ==
    Array([k \in 1..NCols(train) |->
              ColumnStat(Len(train), SumSeq(Column(train, k)),
                         Cov(Column(train, k), Column(train, k)))])

\* (x - mean) / std in fixed point; a zero std is replaced by 1.
ZScore(x, st) ==
    IF st.V = 0 THEN ((st.n * x - st.S) * FixedPoint) \div st.n
    ELSE ((st.n * x - st.S) * FixedPoint * FixedPoint) \div st.R

ScaleWith(M, stats) ==
    Array([i \in DOMAIN M |-> Array([k \in DOMAIN M[i] |-> ZScore(M[i][k], stats[k])])])

\* Standardization Primitive: per column, with the training statistics,
\* applied to train and test.
standardizer(train, test) ==
    <<ScaleWith(train, ColumnStats(train)), ScaleWith(test, ColumnStats(train))>>

Clip(r) ==
    [exc |-> "", nan |-> FALSE,
     v |-> IF r > FixedPoint THEN FixedPoint ELSE IF r < -FixedPoint THEN -FixedPoint ELSE r]

PearsonOf(cov, vx, vy) ==
    IF vx = 0 \/ vy = 0 THEN [exc |-> "", nan |-> TRUE, v |-> 0]
    ELSE Clip((cov * FixedPoint) \div ISqrt(vx * vy))

\* Correlation Primitive: the Pearson coefficient.  Fewer than 2 points
\* raise or give NaN, depending on the build; a constant input gives NaN.
pearsonr(x, y, raises) ==
    IF Len(x) < 2
    THEN [exc |-> IF raises THEN "ValueError" ELSE "", nan |-> TRUE, v |-> 0]
    ELSE PearsonOf(Cov(x, y), Cov(x, x), Cov(y, y))

\* pyod argmaxn with n = 1: the first bin, in scan order, that holds the
\* highest count (0-based).
argmaxn(hist) ==
    (CHOOSE b \in DOMAIN hist :
        /\ \A c \in DOMAIN hist : hist[c] <= hist[b]
        /\ \A c \in DOMAIN hist : c < b => hist[c] < hist[b]) - 1

\* The bin numpy.histogram counts s in; lo and hi are twice the range's ends.
BinOf(s, bins, lo, hi) ==
    IF 2 * s = hi THEN bins - 1 ELSE ((2 * s - lo) * bins) \div (hi - lo)

\* Edges are kept exactly: bin_edges[j] is the numerator of a fraction over
\* the denominator den.
HistogramOver(scores, bins, lo, hi) ==
    [hist |-> Array([j \in 1..bins |->
                 Cardinality({d \in DOMAIN scores : BinOf(scores[d], bins, lo, hi) = j - 1})]),
     bin_edges |-> Array([j \in 1..(bins + 1) |-> lo * bins + (j - 1) * (hi - lo)]),
     den |-> 2 * bins]

HistogramRange(scores, bins, mn, mx) ==
    IF mn = mx
    THEN HistogramOver(scores, bins, 2 * mn - FixedPoint, 2 * mx + FixedPoint)
    ELSE HistogramOver(scores, bins, 2 * mn, 2 * mx)

\* numpy.histogram(scores, bins) over [min, max], widened to
\* [min - 0.5, max + 0.5] when min = max.
np_histogram(scores, bins) == HistogramRange(scores, bins, MinSeq(scores), MaxSeq(scores))

\* A float64 NaN where a number is expected.
NaN == "nan"

\* np.mean: NaN (and a RuntimeWarning) for an empty vector.
np_mean(v) == IF v = <<>> THEN NaN ELSE SumSeq(v) \div Len(v)

(***************************************************************************)
(* class LSCP.                                                             *)
(***************************************************************************)

\* No object yet: every attribute unset.
NoObject ==
    [exists |-> FALSE, estimator_list |-> <<>>, n_clf |-> 0,
     local_region_size |-> 0, local_region_min |-> 0, local_region_max |-> 0,
     local_max_features |-> 0, local_min_features |-> 0,
     local_region_iterations |-> 0, local_region_threshold |-> 0,
     n_bins |-> 0, n_selected |-> 0,
     random_state |-> [kind |-> "seed", state |-> 0],
     attrs |-> {}, n_features_ |-> 0, X_train_norm_ |-> <<>>,
     train_scores_ |-> <<>>, training_pseudo_label_ |-> <<>>,
     decision_scores_ |-> <<>>]

\* The assignments of __init__ (lines 111-122).  local_max_features and
\* local_min_features are in tenths.
InitAttributes(estimator_list, local_region_size, local_max_features, n_bins, random_state) ==
    [NoObject EXCEPT
        !.exists = TRUE,
        !.estimator_list = estimator_list,
        !.n_clf = Len(estimator_list),
        !.local_region_size = local_region_size,
        !.local_region_min = 30,
        !.local_region_max = 200,
        !.local_max_features = local_max_features,
        !.local_min_features = 5,
        !.local_region_iterations = 20,
        !.local_region_threshold = 20 \div 2,
        !.n_bins = n_bins,
        !.n_selected = 1,
        !.random_state = random_state]

\* The loop of check_detector (lines 130-131).
InitDetectors(obj, warned) ==
    IF \E e \in DOMAIN obj.estimator_list : ~check_detector(obj.estimator_list[e])
    THEN [exc |-> "AttributeError", warnings |-> warned, self |-> NoObject]
    ELSE [exc |-> "", warnings |-> warned, self |-> obj]

\* __init__ without the clamp of local_max_features.
InitChecks_NoClamp(obj) ==
    IF ~(Len(obj.estimator_list) > 1)
    THEN [exc |-> "AssertionError", warnings |-> {}, self |-> NoObject]
    ELSE InitDetectors(obj, {})

\* The assertion and the clamp of __init__ (lines 124-128).
InitChecks(obj) ==
    IF ~(Len(obj.estimator_list) > 1)
    THEN [exc |-> "AssertionError", warnings |-> {}, self |-> NoObject]
    ELSE IF obj.local_max_features > 10
    THEN InitDetectors([obj EXCEPT !.local_max_features = 10], {"local_max_features"})
    ELSE InitDetectors(obj, {})

\* LSCP.__init__.
__init__(estimator_list, local_region_size, local_max_features, n_bins, random_state) ==
    InitChecks(InitAttributes(estimator_list, local_region_size, local_max_features,
                              n_bins, random_state))

\* collections.Counter(votes).items(): the distinct items in order of first
\* occurrence.
RECURSIVE CounterItems(_, _)
CounterItems(votes, seen) ==
    IF votes = <<>> THEN <<>>
    ELSE IF Head(votes) \in seen THEN CounterItems(Tail(votes), seen)
    ELSE <<Head(votes)>> \o CounterItems(Tail(votes), seen \cup {Head(votes)})

CounterCount(votes, item) == Cardinality({p \in DOMAIN votes : votes[p] = item})

\* The filter keeping an index retrieved in exactly half of the iterations.
KeepVote_AtLeast(votes, item, local_region_threshold) ==
    CounterCount(votes, item) >= local_region_threshold

\* The filter of lines 291-293.
KeepVote(votes, item, local_region_threshold) ==
    CounterCount(votes, item) > local_region_threshold

FinalLocalRegion(votes, local_region_threshold) ==
    SelectSeq(CounterItems(votes, {}),
              LAMBDA item : KeepVote(votes, item, local_region_threshold))

\* The bounds lscp.py hands to the sampler (lines 274-275): int(d * frac),
\* frac in tenths.
min_features(obj) == (NCols(obj.X_train_norm_) * obj.local_min_features) \div 10
max_features(obj) == (NCols(obj.X_train_norm_) * obj.local_max_features) \div 10

\* Lines 285-286: the neighbours of each test instance join its own list.
AddNeighbors(obj, X_test_norm, local_region_list, features) ==
    Array([j \in DOMAIN X_test_norm |->
              local_region_list[j] \o KDTree_query(obj.X_train_norm_, X_test_norm[j],
                                                   features, obj.local_region_size)])

LocalRegionDrawn(obj, acc, g) ==
    [acc EXCEPT !.random_state = g.random_state,
                !.bounds = Append(@, <<min_features(obj), max_features(obj)>>),
                !.subspaces = Append(@, g.features)]

\* One pass of the loop of _get_local_region (lines 268-286); the KDTree
\* rejects an empty subspace, X_test_norm[:, features] a feature the test
\* data lacks, the query k > n.
RECURSIVE LocalRegionLoop(_, _, _, _)
RECURSIVE LocalRegionQuery(_, _, _, _, _)
LocalRegionLoop(obj, X_test_norm, left, acc) ==
    IF left = 0 \/ acc.exc # "" THEN acc
    ELSE LocalRegionQuery(obj, X_test_norm, left, acc,
            generate_bagging_indices(acc.random_state, NCols(obj.X_train_norm_),
                                     min_features(obj), max_features(obj)))

LocalRegionQuery(obj, X_test_norm, left, acc, g) ==
    IF g.exc # "" THEN [LocalRegionDrawn(obj, acc, g) EXCEPT !.exc = "ValueError:sampler"]
    ELSE IF g.features = {}
    THEN [LocalRegionDrawn(obj, acc, g) EXCEPT !.exc = "ValueError:KDTree"]
    ELSE IF \E f \in g.features : f >= NCols(X_test_norm)
    THEN [LocalRegionDrawn(obj, acc, g) EXCEPT !.exc = "IndexError"]
    ELSE IF obj.local_region_size > NRows(obj.X_train_norm_)
    THEN [LocalRegionDrawn(obj, acc, g) EXCEPT !.exc = "ValueError:query"]
    ELSE LocalRegionLoop(obj, X_test_norm, left - 1,
            [LocalRegionDrawn(obj, acc, g) EXCEPT
                !.local_region_list = AddNeighbors(obj, X_test_norm, @, g.features)])

LocalRegionResult(obj, X_test_norm, done) ==
    [exc |-> done.exc, random_state |-> done.random_state,
     bounds |-> done.bounds, subspaces |-> done.subspaces,
     local_region_list |-> done.local_region_list,
     final_local_region_list |->
         IF done.exc # "" THEN <<>>
         ELSE Array([j \in DOMAIN X_test_norm |->
                  FinalLocalRegion(done.local_region_list[j], obj.local_region_threshold)])]

\* LSCP._get_local_region.
_get_local_region(obj, X_test_norm) ==
    LocalRegionResult(obj, X_test_norm,
        LocalRegionLoop(obj, X_test_norm, obj.local_region_iterations,
            [exc |-> "", random_state |-> obj.random_state,
             bounds |-> <<>>, subspaces |-> <<>>,
             local_region_list |-> Array([j \in DOMAIN X_test_norm |-> <<>>])]))

\* The comparison with the upper edge made strict.
InsideBin_HalfOpen(score, h, max_bin) ==
    /\ score * h.den >= h.bin_edges[max_bin + 1]
    /\ score * h.den < h.bin_edges[max_bin + 2]

\* Lines 325-326: score inside [bin_edges[max_bin], bin_edges[max_bin + 1]].
InsideBin(score, h, max_bin) ==
    /\ score * h.den >= h.bin_edges[max_bin + 1]
    /\ score * h.den <= h.bin_edges[max_bin + 2]

Selected(obj, warned, values, h, max_bin) ==
    [exc |-> "", warnings |-> warned, self |-> obj,
     candidates |-> SelectSeq(Array([d \in DOMAIN values |-> d - 1]),
                              LAMBDA d : InsideBin(values[d + 1], h, max_bin)),
     hist |-> h.hist, bin_edges |-> h.bin_edges, den |-> h.den, max_bin |-> max_bin]

SelectFromHistogram(obj, warned, values, h) ==
    Selected(obj, warned, values, h, argmaxn(h.hist))

\* Lines 316-331; np.histogram rejects NaN and fewer than 1 bin.
SelectClamped(obj, warned, scores) ==
    IF (\E d \in DOMAIN scores : scores[d].nan) \/ obj.n_bins < 1 \/ scores = <<>>
    THEN [exc |-> "ValueError", warnings |-> warned, self |-> obj,
          candidates |-> <<>>, hist |-> <<>>, bin_edges |-> <<>>, den |-> 1, max_bin |-> 0]
    ELSE SelectFromHistogram(obj, warned, Array([d \in DOMAIN scores |-> scores[d].v]),
            np_histogram(Array([d \in DOMAIN scores |-> scores[d].v]), obj.n_bins))

\* _get_competent_detectors without the clamp of n_bins.
get_competent_detectors_NoClamp(obj, scores) == SelectClamped(obj, {}, scores)

\* LSCP._get_competent_detectors.  scores: records [nan, v].
_get_competent_detectors(obj, scores) ==
    IF obj.n_bins > obj.n_clf
    THEN SelectClamped([obj EXCEPT !.n_bins = obj.n_clf], {"n_bins"}, scores)
    ELSE SelectClamped(obj, {}, scores)

\* Lines 237-243 for test instance i: the correlation of each detector's
\* train scores with the pseudo ground truth inside the local region.
Correlate(obj, i, ctx) ==
    Array([d \in 1..obj.n_clf |->
        pearsonr(Take(obj.training_pseudo_label_, ctx.test_local_regions[i + 1]),
                 Take(Column(ctx.train_scores_norm, d), ctx.test_local_regions[i + 1]),
                 ctx.raises)])

Floats(corr) == Array([d \in DOMAIN corr |-> [nan |-> corr[d].nan, v |-> corr[d].v]])

\* The test score of the first competent detector in place of the mean.
PointAverage_First(i, ctx, corr, sel) ==
    IF sel.exc # ""
    THEN [exc |-> "ValueError:histogram", warnings |-> sel.warnings, self |-> sel.self,
          score |-> 0, pearson_corr_scores |-> Floats(corr), candidates |-> <<>>]
    ELSE [exc |-> "", warnings |-> sel.warnings, self |-> sel.self,
          score |-> ctx.test_scores_norm[i + 1][Head(sel.candidates) + 1],
          pearson_corr_scores |-> Floats(corr), candidates |-> sel.candidates]

\* Line 246: the mean of the test scores of the competent detectors.
PointAverage(i, ctx, corr, sel) ==
    IF sel.exc # ""
    THEN [exc |-> "ValueError:histogram", warnings |-> sel.warnings, self |-> sel.self,
          score |-> 0, pearson_corr_scores |-> Floats(corr), candidates |-> <<>>]
    ELSE [exc |-> "", warnings |-> sel.warnings, self |-> sel.self,
          score |-> np_mean(Take(ctx.test_scores_norm[i + 1], sel.candidates)),
          pearson_corr_scores |-> Floats(corr), candidates |-> sel.candidates]

PointSelect(obj, i, ctx, corr) ==
    IF \E d \in DOMAIN corr : corr[d].exc # ""
    THEN [exc |-> "ValueError:pearsonr", warnings |-> {}, self |-> obj, score |-> 0,
          pearson_corr_scores |-> Floats(corr), candidates |-> <<>>]
    ELSE PointAverage(i, ctx, corr, _get_competent_detectors(obj, Floats(corr)))

\* The body of the loop over test instances (lines 234-246) for instance i.
PointStep(obj, i, ctx) == PointSelect(obj, i, ctx, Correlate(obj, i, ctx))

\* The score written at the mirrored position.
StoreScore_Mirrored(pred_scores_ens, i, score) ==
    [pred_scores_ens EXCEPT ![Len(pred_scores_ens) - i] = score]

\* pred_scores_ens[i,] = score
StoreScore(pred_scores_ens, i, score) == [pred_scores_ens EXCEPT ![i + 1] = score]

ScoreLoopDone(i, acc, st) ==
    [exc |-> st.exc, warnings |-> acc.warnings \cup st.warnings, self |-> st.self,
     pred_scores_ens |-> IF st.exc = "" THEN StoreScore(acc.pred_scores_ens, i, st.score)
                         ELSE acc.pred_scores_ens,
     pearson_corr_scores |-> Append(acc.pearson_corr_scores, st.pearson_corr_scores),
     candidates |-> Append(acc.candidates, st.candidates)]

\* The loop over test instances, from instance i on, in order; an exception
\* ends it.
RECURSIVE ScoreLoop(_, _, _)
ScoreLoop(i, ctx, acc) ==
    IF i >= Len(ctx.test_local_regions) \/ acc.exc # "" THEN acc
    ELSE ScoreLoop(i + 1, ctx, ScoreLoopDone(i, acc, PointStep(acc.self, i, ctx)))

\* Lines 211-213.
RegionSizeWarning(obj) ==
    IF obj.local_region_size < obj.local_region_min
       \/ obj.local_region_size > obj.local_region_max
    THEN {"local_region_size"} ELSE {}

\* Lines 220-231: test scores, standardization, pseudo ground truth.
PrologueScores(obj, X, raises, lr, norm) ==
    [exc |-> "", warnings |-> RegionSizeWarning(obj),
     self |-> [obj EXCEPT
                  !.random_state = lr.random_state,
                  !.training_pseudo_label_ =
                      Array([r \in DOMAIN norm[1] |-> MaxSeq(norm[1][r])]),
                  !.attrs = @ \cup {"training_pseudo_label_"}],
     lr |-> lr, detector_calls |-> obj.n_clf,
     ctx |-> [test_local_regions |-> lr.final_local_region_list,
              train_scores_norm |-> norm[1], test_scores_norm |-> norm[2],
              raises |-> raises]]

PrologueRegions(obj, X, raises, lr) ==
    IF lr.exc # ""
    THEN [exc |-> lr.exc, warnings |-> RegionSizeWarning(obj),
          self |-> [obj EXCEPT !.random_state = lr.random_state],
          lr |-> lr, detector_calls |-> 0,
          ctx |-> [test_local_regions |-> <<>>, train_scores_norm |-> <<>>,
                   test_scores_norm |-> <<>>, raises |-> raises]]
    ELSE PrologueScores(obj, X, raises, lr,
            standardizer(obj.train_scores_, DetectorScores(obj.estimator_list, X)))

\* What _get_decision_scores has computed when its loop starts (lines 211-231).
ScorePrologue(obj, X, raises) ==
    PrologueRegions(obj, X, raises, _get_local_region(obj, X))

ScoreEpilogue(pro, loop) ==
    [exc |-> loop.exc, warnings |-> pro.warnings \cup loop.warnings,
     self |-> loop.self,
     pred_scores_ens |-> IF loop.exc = "" THEN loop.pred_scores_ens ELSE <<>>,
     lr |-> pro.lr, ctx |-> pro.ctx, detector_calls |-> pro.detector_calls,
     pearson_corr_scores |-> loop.pearson_corr_scores,
     candidates |-> loop.candidates]

\* pred_scores_ens = np.zeros([X_test_norm.shape[0], ])
LoopStart(pro) ==
    [exc |-> pro.exc, warnings |-> {}, self |-> pro.self,
     pred_scores_ens |-> Array([j \in DOMAIN pro.ctx.test_local_regions |-> 0]),
     pearson_corr_scores |-> <<>>, candidates |-> <<>>]

ScoreFrom(pro) == ScoreEpilogue(pro, ScoreLoop(0, pro.ctx, LoopStart(pro)))

\* LSCP._get_decision_scores.
_get_decision_scores(obj, X, raises) == ScoreFrom(ScorePrologue(obj, X, raises))

\* Lines 147-160 of fit.
FitAttributes(obj, X) ==
    [obj EXCEPT
        !.random_state = check_random_state(obj.random_state),
        !.n_features_ = NCols(X),
        !.X_train_norm_ = X,
        !.train_scores_ = DetectorScores(obj.estimator_list, X),
        !.attrs = @ \cup {"n_features_", "X_train_norm_", "train_scores_"}]

\* Lines 163-164 of fit; _process_decision_scores sets threshold_ and labels_.
FitScores(r) ==
    IF r.exc # "" THEN r
    ELSE [r EXCEPT !.self = [r.self EXCEPT
                                !.decision_scores_ = r.pred_scores_ens,
                                !.attrs = @ \cup {"decision_scores_", "threshold_", "labels_"}]]

\* LSCP.fit.
fit(obj, X, raises) == FitScores(_get_decision_scores(FitAttributes(obj, X), X, raises))

\* sklearn check_is_fitted on the attributes decision_function names.
check_is_fitted(obj) ==
    {"training_pseudo_label_", "train_scores_", "X_train_norm_", "n_features_"}
        \subseteq obj.attrs

\* A call that raised before _get_decision_scores.
Raised(obj, raises, exc) ==
    [exc |-> exc, warnings |-> {}, self |-> obj, pred_scores_ens |-> <<>>,
     lr |-> [exc |-> "", random_state |-> obj.random_state, bounds |-> <<>>,
             subspaces |-> <<>>, local_region_list |-> <<>>,
             final_local_region_list |-> <<>>],
     ctx |-> [test_local_regions |-> <<>>, train_scores_norm |-> <<>>,
              test_scores_norm |-> <<>>, raises |-> raises],
     detector_calls |-> 0, pearson_corr_scores |-> <<>>, candidates |-> <<>>]

\* decision_function without the comparison of feature counts.
decision_function_NoShapeCheck(obj, X, raises) ==
    IF ~check_is_fitted(obj) THEN Raised(obj, raises, "NotFittedError")
    ELSE _get_decision_scores(obj, X, raises)

\* LSCP.decision_function.
decision_function(obj, X, raises) ==
    IF ~check_is_fitted(obj) THEN Raised(obj, raises, "NotFittedError")
    ELSE IF obj.n_features_ # NCols(X) THEN Raised(obj, raises, "ValueError:n_features")
    ELSE _get_decision_scores(obj, X, raises)

(***************************************************************************)
(* Inputs.                                                                 *)
(***************************************************************************)
EstimatorPool == <<"sum", "first", "sqnorm">>

\* Lists of 0..3 detectors, and one holding an object that is no detector.
EstimatorLists ==
    {SubSeq(EstimatorPool, 1, L) : L \in 0..Len(EstimatorPool)}
        \cup {<<"sum", "no_decision_function">>}

\* local_max_features in tenths: 0.6 and 1.5.
LocalMaxFeatures == {6, 15}

\* Training matrices with 1, 2 and 3 features.
TrainSets ==
    { <<<<0>>, <<2>>, <<3>>>>,
      <<<<0, 0>>, <<1, 1>>, <<4, 4>>, <<3, 6>>>>,
      <<<<0, 1, 2>>, <<2, 0, 0>>, <<1, 3, 0>>>> }

\* Query matrices with 2 and 3 features; the training matrix is one more.
QuerySets ==
    { <<<<1, 1>>, <<0, 4>>>>,
      <<<<1, 2, 0>>>> }

(***************************************************************************)
(* The state machine.                                                      *)
(***************************************************************************)
NoCall ==
    [op |-> "", X |-> <<>>, exc |-> "", warnings |-> {}, scores |-> <<>>,
     n_estimators |-> 0, local_max_features |-> 0,
     bounds |-> <<>>, subspaces |-> <<>>, local_region_list |-> <<>>,
     final_local_region_list |-> <<>>, test_scores_norm |-> <<>>,
     pearson_corr_scores |-> <<>>, candidates |-> <<>>, detector_calls |-> 0]

CallRecord(op, X, r) ==
    [NoCall EXCEPT
        !.op = op, !.X = X, !.exc = r.exc, !.warnings = r.warnings,
        !.scores = r.pred_scores_ens,
        !.bounds = r.lr.bounds, !.subspaces = r.lr.subspaces,
        !.local_region_list = r.lr.local_region_list,
        !.final_local_region_list = r.lr.final_local_region_list,
        !.test_scores_norm = r.ctx.test_scores_norm,
        !.pearson_corr_scores = r.pearson_corr_scores,
        !.candidates = r.candidates,
        !.detector_calls = r.detector_calls]

Init ==
    /\ self = NoObject
    /\ ret = NoCall
    /\ history = <<>>
    /\ scipy_raises \in BOOLEAN

Constructed(n_estimators, local_max_features, r) ==
    /\ self' = r.self
    /\ ret' = [NoCall EXCEPT !.op = "__init__", !.exc = r.exc, !.warnings = r.warnings,
                             !.n_estimators = n_estimators,
                             !.local_max_features = local_max_features]

\* clf = LSCP(estimator_list, local_region_size, local_max_features, n_bins, random_state)
Construct ==
    /\ ~self.exists
    /\ ret.op = ""
    /\ \E estimator_list \in EstimatorLists, local_region_size \in 1..MaxRegionSize,
          local_max_features \in LocalMaxFeatures, n_bins \in 1..MaxBins,
          seed \in 0..MaxSeed :
         Constructed(Len(estimator_list), local_max_features,
                     __init__(estimator_list, local_region_size, local_max_features,
                              n_bins, [kind |-> "seed", state |-> seed]))
    /\ UNCHANGED <<history, scipy_raises>>

Fitted(X, r) ==
    /\ self' = r.self
    /\ ret' = CallRecord("fit", X, r)

\* clf.fit(X)
Fit ==
    /\ self.exists
    /\ "X_train_norm_" \notin self.attrs
    /\ history = <<>>
    /\ \E X \in TrainSets : Fitted(X, fit(self, X, scipy_raises))
    /\ UNCHANGED <<history, scipy_raises>>

Scored(X, r) ==
    /\ self' = r.self
    /\ ret' = CallRecord("decision_function", X, r)
    /\ history' = Append(history, [X |-> X, exc |-> r.exc, scores |-> r.pred_scores_ens])

\* clf.decision_function(X)
DecisionFunction ==
    /\ self.exists
    /\ Len(history) < MaxCalls
    /\ \E X \in (QuerySets \cup {self.X_train_norm_}) \ {<<>>} :
         Scored(X, decision_function(self, X, scipy_raises))
    /\ UNCHANGED scipy_raises

Next == Construct \/ Fit \/ DecisionFunction

Spec == Init /\ [][Next]_vars

(***************************************************************************)
(* The Competency Selector alone: lines 245-246 applied to a vector of     *)
(* correlation scores and a row of standardized test scores.               *)
(***************************************************************************)

\* Correlation scores in tenths, -MaxScore..MaxScore.
ScoreVectors(m) == [1..m -> (-MaxScore)..MaxScore]

\* Rows of test_scores_norm, cut to the number of detectors.
TestRows == {<<-7, 3, 13>>, <<4, 4, -9>>}

\* pearson_corr_scores with entry nan_at undefined (0: all defined).
CorrOf(scores, nan_at) ==
    Array([d \in DOMAIN scores |-> [exc |-> "", nan |-> (d = nan_at), v |-> scores[d]]])

SelectorCtx(row, raises) ==
    [test_local_regions |-> <<<<>>>>, train_scores_norm |-> <<>>,
     test_scores_norm |-> <<row>>, raises |-> raises]

SelectorObjects ==
    {__init__(SubSeq(EstimatorPool, 1, m), 1, 10, n_bins,
              [kind |-> "seed", state |-> 0]).self :
        m \in 2..Len(EstimatorPool), n_bins \in 1..(MaxBins + 2)}

InitSel ==
    /\ self \in SelectorObjects
    /\ ret = [op |-> "", scores |-> <<>>, nan_at |-> 0, row |-> <<>>, n_bins |-> 0,
              exc |-> "", warnings |-> {}, candidates |-> <<>>, score |-> 0]
    /\ history = <<>>
    /\ scipy_raises = FALSE

SelectorReturn(scores, nan_at, row, st) ==
    /\ self' = st.self
    /\ ret' = [op |-> "select", scores |-> scores, nan_at |-> nan_at, row |-> row,
               n_bins |-> self.n_bins, exc |-> st.exc, warnings |-> st.warnings,
               candidates |-> st.candidates, score |-> st.score]

\* pred = np.mean(test_scores_norm[i, self._get_competent_detectors(scores)])
Select ==
    /\ ret.op = ""
    /\ \E scores \in ScoreVectors(self.n_clf), nan_at \in 0..1, r \in TestRows :
          SelectorReturn(scores, nan_at, SubSeq(r, 1, self.n_clf),
                    PointSelect(self, 0, SelectorCtx(SubSeq(r, 1, self.n_clf), scipy_raises),
                                CorrOf(scores, nan_at)))
    /\ UNCHANGED <<history, scipy_raises>>

NextSel == Select

SpecSel == InitSel /\ [][NextSel]_vars

(***************************************************************************)
(* The loop of _get_decision_scores with its per-point steps taken in any  *)
(* order: decision_function is split into the part before the loop and    *)
(* one step for each test instance.                                        *)
(***************************************************************************)

\* Training matrices: two pairs of close points; one whose first point has
\* another nearest neighbour in each feature.
ParTrainSets ==
    { <<<<0, 0>>, <<1, 1>>, <<4, 4>>, <<3, 6>>>>,
      <<<<0, 3>>, <<1, 0>>, <<5, 4>>, <<6, 6>>>> }

ParQuerySets ==
    { <<<<1, 1>>, <<0, 4>>>>,
      <<<<5, 5>>, <<6, 6>>, <<6, 7>>>> }

ConstructPar ==
    /\ ~self.exists
    /\ ret.op = ""
    /\ \E L \in 2..Len(EstimatorPool), local_region_size \in 2..MaxRegionSize,
          local_max_features \in LocalMaxFeatures, n_bins \in 1..(MaxBins + 1),
          seed \in 0..MaxSeed :
         Constructed(L, local_max_features,
                     __init__(SubSeq(EstimatorPool, 1, L), local_region_size,
                              local_max_features, n_bins,
                              [kind |-> "seed", state |-> seed]))
    /\ UNCHANGED <<history, scipy_raises>>

FitPar ==
    /\ self.exists
    /\ ret.op = "__init__"
    /\ \E X \in ParTrainSets : Fitted(X, fit(self, X, scipy_raises))
    /\ UNCHANGED <<history, scipy_raises>>

\* decision_function up to the loop: ret holds what the loop works on.
Begun(X, obj, pro) ==
    /\ self' = pro.self
    /\ ret' = [op |-> "begin", X |-> X, n_bins |-> obj.n_bins, exc |-> pro.exc,
               warnings |-> pro.warnings, pro |-> pro,
               pending |-> IF pro.exc = "" THEN 0..(Len(X) - 1) ELSE {},
               pred_scores_ens |-> LoopStart(pro).pred_scores_ens,
               order |-> <<>>]

Begin ==
    /\ ret.op = "fit"
    /\ check_is_fitted(self)
    /\ \E X \in ParQuerySets :
          /\ NCols(X) = self.n_features_
          /\ Begun(X, self, ScorePrologue(self, X, scipy_raises))
    /\ UNCHANGED <<history, scipy_raises>>

Stepped(i, st) ==
    /\ self' = st.self
    /\ ret' = [ret EXCEPT
                  !.op = "step",
                  !.exc = st.exc,
                  !.warnings = @ \cup st.warnings,
                  !.pending = IF st.exc = "" THEN @ \ {i} ELSE {},
                  !.pred_scores_ens = IF st.exc = "" THEN StoreScore(@, i, st.score) ELSE @,
                  !.order = Append(@, i)]

\* The body of the loop for test instance i, for any i not yet done.
Step ==
    /\ ret.op \in {"begin", "step"}
    /\ ret.exc = ""
    /\ \E i \in ret.pending : Stepped(i, PointStep(self, i, ret.pro.ctx))
    /\ UNCHANGED <<history, scipy_raises>>

NextPar == ConstructPar \/ FitPar \/ Begin \/ Step

SpecPar == Init /\ [][NextPar]_vars

(***************************************************************************)
(* Properties.                                                             *)
(***************************************************************************)

\* fit has run to its end on this object.
FitCompleted == "decision_scores_" \in self.attrs

\* The last call was decision_function and it reached _get_local_region.
ScoredRegions ==
    /\ ret.op = "decision_function"
    /\ ret.final_local_region_list # <<>>

\* C1: on a fitted ensemble, a decision_function call in which the local
\* region of some query point holds fewer than 2 training indices returns
\* normally, with one score for every query point.
C1_DegenerateRegionScored ==
    (/\ FitCompleted
     /\ ScoredRegions
     /\ \E j \in DOMAIN ret.final_local_region_list :
            Len(ret.final_local_region_list[j]) < 2)
        => (ret.exc = "" /\ Len(ret.scores) = Len(ret.X))

\* C2: on a fitted ensemble, two decision_function calls in succession with
\* the same query matrix have the same outcome and the same score vector.
C2_Idempotent ==
    FitCompleted =>
        \A c \in 1..(Len(history) - 1) :
            history[c].X = history[c + 1].X
                => (/\ history[c].exc = history[c + 1].exc
                    /\ history[c].scores = history[c + 1].scores)

\* C3: a decision_function call on a fitted ensemble with a query matrix of
\* another feature count raises the shape-mismatch error, returns no score,
\* invokes no base detector and leaves every field of the ensemble as it was.
C3_ShapeMismatchFailsFast ==
    [][(/\ Len(history') = Len(history) + 1
        /\ check_is_fitted(self)
        /\ NCols(ret'.X) # self.n_features_)
          => (/\ ret'.exc = "ValueError:n_features"
              /\ ret'.scores = <<>>
              /\ ret'.detector_calls = 0
              /\ self' = self)]_vars

C3_Witness ==
    /\ FitCompleted
    /\ ret.op = "decision_function"
    /\ NCols(ret.X) # self.n_features_
    /\ ret.exc = "ValueError:n_features"

\* C4: given base detectors, __init__ fails exactly when fewer than 2 of them
\* are supplied; local_max_features above 1.0 does not fail, it warns and
\* stores 1.0; a constructed object has local_max_features <= 1.0 and at
\* least 2 detectors.
C4_Construction ==
    /\ (ret.op = "__init__" /\ ret.exc # "AttributeError")
          => (/\ (ret.exc = "AssertionError") <=> (ret.n_estimators < 2)
              /\ (ret.exc # "") <=> (ret.n_estimators < 2)
              /\ (ret.exc = "" /\ ret.local_max_features > 10)
                    => (/\ "local_max_features" \in ret.warnings
                        /\ self.local_max_features = 10)
              /\ (ret.exc = "") <=> self.exists)
    /\ self.exists => (self.local_max_features <= 10 /\ self.n_clf >= 2)

C4_Witness ==
    /\ ret.op = "__init__"
    /\ ret.exc = ""
    /\ ret.local_max_features > 10
    /\ self.exists

\* The votes of query row q over the subspaces drawn, recomputed.
RECURSIVE VotesOf(_, _, _, _)
VotesOf(X_train, q, subspaces, k) ==
    IF subspaces = <<>> THEN <<>>
    ELSE KDTree_query(X_train, q, Head(subspaces), k)
            \o VotesOf(X_train, q, Tail(subspaces), k)

Occurrences(votes, item) == Cardinality({p \in DOMAIN votes : votes[p] = item})

CeilTenths(a) == (a + 9) \div 10

\* C10: every iteration hands the sampler the bounds ceil(d * 0.5) and
\* ceil(d * local_max_features), and the subspace drawn has at least
\* ceil(d * 0.5) >= 1 features.
C10_SamplerBounds ==
    (ret.op \in {"fit", "decision_function"})
      => \A t \in DOMAIN ret.bounds :
            /\ ret.bounds[t] = <<CeilTenths(self.n_features_ * 5),
                                 CeilTenths(self.n_features_ * self.local_max_features)>>
            /\ Cardinality(ret.subspaces[t]) >= CeilTenths(self.n_features_ * 5)
            /\ Cardinality(ret.subspaces[t]) >= 1

\* A selector call on m defined correlation scores.
SelectedDefined == ret.op = "select" /\ ret.nan_at = 0

CandidateSet == {ret.candidates[p] : p \in DOMAIN ret.candidates}

\* C7: for m >= 2 defined correlation scores and n_bins >= 1 the Competency
\* Selector returns normally a non-empty list of detector indices, each in
\* 0..m-1, whatever the number of detectors.
C7_SelectorNonEmpty ==
    SelectedDefined
      => /\ Len(ret.scores) >= 2 /\ ret.n_bins >= 1
         /\ ret.exc = ""
         /\ ret.candidates # <<>>
         /\ CandidateSet \subseteq 0..(Len(ret.scores) - 1)

\* Three detectors of which the selector keeps one.
C7_Witness ==
    /\ SelectedDefined
    /\ Len(ret.scores) = 3
    /\ ret.n_bins > 1
    /\ Len(ret.candidates) = 1

\* C8: with n_bins = 1 the selector returns all m detector indices, equal
\* scores included, and the score of the point is the mean of its m
\* standardized test scores.
C8_SingleBinSelectsAll ==
    (SelectedDefined /\ ret.n_bins = 1)
      => /\ ret.exc = ""
         /\ ret.candidates = [d \in 1..Len(ret.scores) |-> d - 1]
         /\ Len(ret.row) * ret.score <= SumSeq(ret.row)
         /\ SumSeq(ret.row) < Len(ret.row) * ret.score + Len(ret.row)

\* One bin and all scores equal, on a row whose entries differ.
C8_Witness ==
    /\ SelectedDefined
    /\ ret.n_bins = 1
    /\ \A d \in DOMAIN ret.scores : ret.scores[d] = ret.scores[1]
    /\ Len(ret.candidates) = 3
    /\ ret.row[1] # ret.row[2]

\* The bins as the selector's description gives them: min(n_bins, m) bins of
\* equal width over [min(scores), max(scores)]; edge j is C9Edge(j) / C9Bins.
C9Bins == IF ret.n_bins < Len(ret.scores) THEN ret.n_bins ELSE Len(ret.scores)

C9Lo == CHOOSE x \in {ret.scores[d] : d \in DOMAIN ret.scores} :
            \A d \in DOMAIN ret.scores : x <= ret.scores[d]

C9Hi == CHOOSE x \in {ret.scores[d] : d \in DOMAIN ret.scores} :
            \A d \in DOMAIN ret.scores : x >= ret.scores[d]

C9Edge(j) == C9Lo * C9Bins + j * (C9Hi - C9Lo)

\* Detector d (1-based position) is counted in bin j: half-open bins, the
\* last one closed.
C9CountedIn(d, j) ==
    /\ C9Edge(j) <= ret.scores[d] * C9Bins
    /\ \/ ret.scores[d] * C9Bins < C9Edge(j + 1)
       \/ (j = C9Bins - 1 /\ ret.scores[d] = C9Hi)

C9Count(j) == Cardinality({d \in DOMAIN ret.scores : C9CountedIn(d, j)})

\* The highest-count bin, the first one on ties.
C9Best == CHOOSE j \in 0..(C9Bins - 1) :
            \A k \in 0..(C9Bins - 1) :
                /\ C9Count(k) <= C9Count(j)
                /\ k < j => C9Count(k) < C9Count(j)

C9Expected ==
    {d - 1 : d \in {e \in DOMAIN ret.scores :
                       /\ C9Edge(C9Best) <= ret.scores[e] * C9Bins
                       /\ ret.scores[e] * C9Bins <= C9Edge(C9Best + 1)}}

\* C9: the selector histograms the m scores into min(n_bins, m) equal-width
\* bins over [min, max], clamping a larger n_bins to m with a warning and no
\* error, and returns exactly the detectors whose score lies in the closed
\* interval of the highest-count bin: those counted in it and those on its
\* upper edge that the histogram counted in the next bin.
C9_ClosedBinSelection ==
    SelectedDefined
      => /\ ret.exc = ""
         /\ ("n_bins" \in ret.warnings) <=> (ret.n_bins > Len(ret.scores))
         /\ self.n_bins = C9Bins
         /\ CandidateSet = C9Expected
         /\ Len(ret.candidates) = Cardinality(C9Expected)
         /\ \A d \in DOMAIN ret.scores : C9CountedIn(d, C9Best) => (d - 1) \in CandidateSet

\* n_bins clamped, and a detector on the upper edge, counted in the next bin,
\* is returned.
C9_Witness ==
    /\ SelectedDefined
    /\ ret.n_bins > Len(ret.scores)
    /\ C9Best + 1 < C9Bins
    /\ \E d \in DOMAIN ret.scores :
          /\ C9CountedIn(d, C9Best + 1)
          /\ (d - 1) \in CandidateSet

\* The loop run in the order of the test instances, from what the call had
\* computed when its loop started.
SequentialLoop == ScoreFrom(ret.pro)

\* The loop of the call is over and every step returned.
LoopCompleted == ret.op = "step" /\ ret.pending = {} /\ ret.exc = ""

\* Entry i of the output is the score of query row i, computed alone.
RowScores(pred_scores_ens) ==
    \A i \in 0..(Len(ret.X) - 1) :
        pred_scores_ens[i + 1] = PointStep(ret.pro.self, i, ret.pro.ctx).score

====
